---- MODULE Spec2Model ----
(***************************************************************************)
(* The flashcard generation pipeline of fiszki-pl-en (POST /api/generate): *)
(* Input Normalizer, Quota Guard, Generation Session Manager, Batch        *)
(* Translator and Result Reconciler, over the generation_sessions and      *)
(* flashcards tables of src/ai/db-plan.md; and the flashcard list endpoint *)
(* GET /api/flashcards of src/src/pages/api/flashcards/index.ts; and the  *)
(* flashcard list page: the useFlashcards hook, FlashcardList,             *)
(* FlashcardFilters and Pagination.                                        *)
(*                                                                         *)
(* Text is a sequence of one-character strings, so that trimming and       *)
(* length checks are computed, not assumed.                                *)
(***************************************************************************)
EXTENDS Integers, Sequences, FiniteSets, TLC

VARIABLES
    sessions,    \* the generation_sessions table: a sequence of rows, id = index
    flashcards,  \* the flashcards table: a sequence of rows in insertion order
    req,         \* the generation requests being handled, by request slot
    today,       \* the current day of the quota window (no run spans midnight)
    dedupe,      \* the duplicate-removal policy toggle of the Input Normalizer
    get,         \* the GET /api/flashcards request being handled
    filt,        \* the FlashcardFilters component and what its parent holds
    pager,       \* the Pagination component: its props and what it renders
    hook         \* the useFlashcards hook

vars == <<sessions, flashcards, req, today, dedupe, get, filt, pager, hook>>

----------------------------------------------------------------------------
(* Program constants *)

MinSentences == 5
MaxSentences == 30
MaxSentenceLen == 200
DailyLimit == 100
RetryBound == 1

(* Bounds of the model *)

Parallelism == 2     \* in-flight Generation Service calls of one request
Deadline == 1        \* ticks of a request's clock until the batch deadline

Reqs == {1, 2}       \* the two requests of the concurrent specification
Users == {"u1", "u2"}
SupervisorLimit == Deadline + 1
Null == -1           \* a NULL duration_ms

----------------------------------------------------------------------------
(* Text *)

Str(c, n) == [i \in 1..n |-> c]

IsSpace(c) == c \in {" ", "\t", "\n"}

RECURSIVE TrimLeft(_)
TrimLeft(s) == IF s # <<>> /\ IsSpace(Head(s)) THEN TrimLeft(Tail(s)) ELSE s

RECURSIVE TrimRight(_)
TrimRight(s) ==
    IF s # <<>> /\ IsSpace(s[Len(s)]) THEN TrimRight(SubSeq(s, 1, Len(s) - 1)) ELSE s

Trim(s) == TrimRight(TrimLeft(s))

RECURSIVE Contains(_, _)
Contains(seq, x) ==
    IF seq = <<>> THEN FALSE ELSE Head(seq) = x \/ Contains(Tail(seq), x)

RECURSIVE Unique(_, _)
\* exact string equality after normalization, first occurrence kept
Unique(seq, seen) ==
    IF seq = <<>> THEN <<>>
    ELSE IF Contains(seen, Head(seq)) THEN Unique(Tail(seq), seen)
    ELSE <<Head(seq)>> \o Unique(Tail(seq), Append(seen, Head(seq)))

----------------------------------------------------------------------------
(* 4.1 Input Normalizer *)

NonEmpty(s) == s # <<>>

Filtered(raw) == SelectSeq([i \in 1..Len(raw) |-> Trim(raw[i])], NonEmpty)

\* the upper bound taken as exclusive
CountOk_ExclusiveMax(n) == n >= MinSentences /\ n < MaxSentences

\* the lower bound off by one
CountOk_FromFour(n) == n >= MinSentences - 1 /\ n <= MaxSentences

CountOk(n) == n >= MinSentences /\ n <= MaxSentences

LengthOk(s) == Len(s) <= MaxSentenceLen

NormalizeInput(raw, removeDuplicates) ==
    LET kept == IF removeDuplicates THEN Unique(Filtered(raw), <<>>) ELSE Filtered(raw)
    IN  IF ~CountOk(Len(kept)) \/ \E i \in 1..Len(kept) : ~LengthOk(kept[i])
        THEN [ok |-> FALSE, error |-> "ValidationError", sentences |-> <<>>, count |-> 0]
        ELSE [ok |-> TRUE, error |-> "", sentences |-> kept, count |-> Len(kept)]

----------------------------------------------------------------------------
(* Rows and request records *)

StatusValues == {"pending", "processing", "completed", "partial", "failed"}
Terminal == {"completed", "partial", "failed"}

\* the status column left at its default
SessionRow_DefaultStatus(u, day, n) ==
    [user |-> u, day |-> day, inputCount |-> n, generatedCount |-> 0,
     status |-> "pending", errorMessage |-> "", durationMs |-> Null]

\* the generated count starts at the number of sentences handed in
SessionRow_CountPrefilled(u, day, n) ==
    [user |-> u, day |-> day, inputCount |-> n, generatedCount |-> n,
     status |-> "processing", errorMessage |-> "", durationMs |-> Null]

SessionRow(u, day, n) ==
    [user |-> u, day |-> day, inputCount |-> n, generatedCount |-> 0,
     status |-> "processing", errorMessage |-> "", durationMs |-> Null]

\* a session of an earlier request that ended with no translation at all
PastSession(u, day, n) ==
    [user |-> u, day |-> day, inputCount |-> n, generatedCount |-> 0,
     status |-> "failed", errorMessage |-> "Generation failed", durationMs |-> 0]

FlashcardRow(id, u, sid, i, sentence, translation) ==
    [id |-> id, user |-> u, session |-> sid, idx |-> i, sentenceEn |-> sentence,
     translationPl |-> translation, source |-> "ai", isEdited |-> FALSE]

NoResponse ==
    [sessionId |-> 0, status |-> "", flashcards |-> <<>>, generatedCount |-> 0,
     failedCount |-> 0, durationMs |-> Null]

IdleReq ==
    [pc |-> "idle", user |-> "", raw |-> <<>>, sentences |-> <<>>, used |-> 0,
     session |-> 0, items |-> <<>>, cancelled |-> FALSE, elapsed |-> 0, k |-> 0,
     error |-> "", response |-> NoResponse,
     \* history, read by no action: another request of the same user was being
     \* handled when this one arrived; a later sentence's call returned while an
     \* earlier one's was still in flight
     overlaps |-> FALSE, overtaken |-> FALSE]

\* the GET handler's view: no user, a parameter the URL does not carry (the
\* null of URLSearchParams.get; no text, since a text holds single characters)
NoUser == ""
Absent == <<"null">>

NoParams == [limit |-> 0, offset |-> 0, source |-> <<>>]
NoBody == [data |-> <<>>, meta |-> [total |-> 0, limit |-> 0, offset |-> 0]]

IdleGet ==
    [pc |-> "idle", query |-> [limit |-> Absent, offset |-> Absent, source |-> Absent],
     authError |-> FALSE, user |-> NoUser, validatedParams |-> NoParams,
     status |-> 0, body |-> NoBody,
     \* history, read by no action: how the validation ended and whether the
     \* flashcard service was called
     parsed |-> "", served |-> ""]

\* FlashcardFilters as first rendered by a parent whose filters are the
\* defaults and whose first fetch has settled
IdleFilt ==
    [searchInput |-> <<>>, timers |-> <<>>,
     search |-> <<>>, source |-> "all", isLoading |-> FALSE,
     \* history, read by no action: the onSearchChange calls made so far; the
     \* keystrokes so far; whether Clear search or Reset Filters was clicked
     \* after the last keystroke
     calls |-> <<>>, keys |-> 0, cleared |-> FALSE]

\* Pagination before it is rendered
IdlePager == [totalPages |-> 0, currentPage |-> 1, pc |-> "props",
              shown |-> FALSE, pages |-> <<>>]

DefaultFilters ==
    [source |-> "all", search |-> <<>>, sort |-> "created_at", order |-> "desc",
     limit |-> 12, offset |-> 0]

\* useFlashcards after its first render, before its effect has run
IdleHook ==
    [state |-> [flashcards |-> <<>>, total |-> 0, isLoading |-> TRUE, error |-> ""],
     filters |-> DefaultFilters,
     \* the filters object is DEFAULT_FILTERS itself
     isDefaultObject |-> TRUE,
     isPending |-> FALSE,
     \* the filters the next render will show: the updaters of transitions
     \* not yet rendered, applied in the order of their calls
     queued |-> [filters |-> DefaultFilters, isDefaultObject |-> TRUE],
     \* the effect of the last render has not run yet
     effectDue |-> TRUE,
     \* the fetches in flight, oldest first: number and filters asked for
     fetches |-> <<>>,
     \* how many fetches were started
     started |-> 0,
     \* history, read by no action: the fetch started last has settled with
     \* a list; the filter update made last
     latestOk |-> FALSE, last |-> [op |-> "", name |-> "", search |-> <<>>, page |-> 0]]

NewItem == [st |-> "todo", attempts |-> 0, tr |-> <<>>, reason |-> ""]

FinalTag(it) == it.st \in {"ok", "fail"}

\* a final tag carries no attempt count: success(translation) or failure(reason)
Success(it, translation) ==
    [it EXCEPT !.st = "ok", !.tr = translation, !.reason = "", !.attempts = 0]

Failure(it, why) ==
    [it EXCEPT !.st = "fail", !.tr = <<>>, !.reason = why, !.attempts = 0]

\* counted from the translator's tags, before the reconciler's demotions
Successes_FromTranslator(items) ==
    Cardinality({i \in DOMAIN items :
        items[i].st = "ok" \/ items[i].reason \in {"invalid", "persist"}})

Successes(items) == Cardinality({i \in DOMAIN items : items[i].st = "ok"})

\* only the retries are counted against the pool
InFlight_RetriesOnly(items) ==
    Cardinality({i \in DOMAIN items :
        items[i].st = "inflight" /\ items[i].attempts > 1})

InFlight(items) == Cardinality({i \in DOMAIN items : items[i].st = "inflight"})

----------------------------------------------------------------------------
(* Inputs of the generation requests *)

S(c) == <<c>>

\* the scenario of the testable properties: an empty entry is dropped, 5 remain
InOk == <<S("a"), <<" ", "b", " ">>, <<>>, S("c"), <<" ">>, S("d"), S("e")>>
\* a repeated sentence, and two sentences the service answers degenerately
InOdd == <<S("a"), S("a"), S("x"), S("y"), S("e")>>
InFew == <<S("a"), S("b"), <<" ">>, S("c"), S("d")>>
InMany == [i \in 1..(MaxSentences + 1) |-> Str("s", i)]
InLong == <<S("a"), S("b"), S("c"), Str("l", MaxSentenceLen + 1), S("e")>>

Inputs == {InOk, InOdd, InFew, InMany, InLong}

----------------------------------------------------------------------------
(* The state after deployment: a store holding earlier sessions *)

History ==
    << PastSession("u1", 0, 30), PastSession("u1", 0, 30),
       PastSession("u1", 1, 30), PastSession("u1", 1, 30),
       PastSession("u1", 1, 30), PastSession("u1", 1, 5),
       PastSession("u2", 1, 30), PastSession("u2", 1, 30),
       PastSession("u2", 1, 30), PastSession("u2", 1, 6) >>

\* one generation request, the default policy
Init ==
    /\ sessions = History
    /\ flashcards = <<>>
    /\ req = [r \in {1} |-> IdleReq]
    /\ today = 1
    /\ dedupe = FALSE
    /\ get = IdleGet
    /\ filt = IdleFilt
    /\ pager = IdlePager
    /\ hook = IdleHook

----------------------------------------------------------------------------
(* Request entry: 4.1 Input Normalizer *)

Active(q) == q.pc \in {"quota", "create", "translate", "reconcile"}

Submit(r, u, raw) ==
    /\ req[r].pc = "idle"
    /\ LET res == NormalizeInput(raw, dedupe)
       IN  req' = [req EXCEPT ![r] =
                [@ EXCEPT !.user = u, !.raw = raw,
                          !.pc = IF res.ok THEN "quota" ELSE "rejected",
                          !.error = res.error,
                          !.sentences = res.sentences,
                          !.overlaps = \E q \in DOMAIN req :
                                          q # r /\ req[q].user = u /\ Active(req[q])]]
    /\ UNCHANGED <<sessions, flashcards, today, dedupe, get, filt, pager, hook>>

----------------------------------------------------------------------------
(* 4.2 Quota Guard *)

\* the budget counted in generated cards instead of input sentences
RECURSIVE SumInputCount_Generated(_, _, _)
SumInputCount_Generated(rows, u, day) ==
    IF rows = <<>> THEN 0
    ELSE (IF Head(rows).user = u /\ Head(rows).day = day
          THEN Head(rows).generatedCount ELSE 0)
         + SumInputCount_Generated(Tail(rows), u, day)

RECURSIVE SumInputCount(_, _, _)
SumInputCount(rows, u, day) ==
    IF rows = <<>> THEN 0
    ELSE (IF Head(rows).user = u /\ Head(rows).day = day
          THEN Head(rows).inputCount ELSE 0) + SumInputCount(Tail(rows), u, day)

UsedToday(u) == SumInputCount(sessions, u, today)

\* the limit itself taken as over budget
OverQuota_AtLimit(used, n) == used + n >= DailyLimit

OverQuota(used, n) == used + n > DailyLimit

\* the error is recorded but the handler does not return
AfterQuota_NoReturn(over) == "create"

\* where the request goes after the check
AfterQuota(over) == IF over THEN "rejected" ELSE "create"

QuotaCheck(r) ==
    /\ req[r].pc = "quota"
    /\ LET used == UsedToday(req[r].user)
           n == Len(req[r].sentences)
       IN  req' = [req EXCEPT ![r] =
                [@ EXCEPT !.used = used,
                          !.pc = AfterQuota(OverQuota(used, n)),
                          !.error = IF OverQuota(used, n)
                                    THEN "QuotaExceededError" ELSE ""]]
    /\ UNCHANGED <<sessions, flashcards, today, dedupe, get, filt, pager, hook>>

----------------------------------------------------------------------------
(* 4.3 Generation Session Manager: creation *)

CreateSession(r) ==
    /\ req[r].pc = "create"
    /\ sessions' = Append(sessions,
                          SessionRow(req[r].user, today, Len(req[r].sentences)))
    /\ req' = [req EXCEPT ![r] =
            [@ EXCEPT !.pc = "translate", !.session = Len(sessions) + 1,
                      !.items = [i \in 1..Len(req[r].sentences) |-> NewItem]]]
    /\ UNCHANGED <<flashcards, today, dedupe, get, filt, pager, hook>>

\* the initial session-row write fails: the request fails, no session exists
CreateSessionFails(r) ==
    /\ req[r].pc = "create"
    /\ req' = [req EXCEPT ![r] = [@ EXCEPT !.pc = "rejected",
                                           !.error = "PersistenceError"]]
    /\ UNCHANGED <<sessions, flashcards, today, dedupe, get, filt, pager, hook>>

----------------------------------------------------------------------------
(* The Generation Service: one call per sentence *)

\* what the service answers when it answers: two sentences of the inputs get
\* degenerate output (an empty and an over-long translation)
Translate(sentence) ==
    IF sentence = S("x") THEN <<>>
    ELSE IF sentence = S("y") THEN Str("z", MaxSentenceLen + 1)
    ELSE <<"p", "l">> \o sentence

Outcomes == {"ok", "transient", "permanent"}

----------------------------------------------------------------------------
(* 4.4 Batch Translator *)

\* nothing more is handed out once a sentence has failed
MayDispatch_StopOnFailure(items, i) ==
    /\ \A j \in DOMAIN items : items[j].st # "fail"
    /\ \/ items[i].st = "backoff"
       \/ items[i].st = "todo" /\ \A j \in 1..(i - 1) : items[j].st # "todo"

\* sentences are handed to the worker pool in input order; a sentence waiting
\* for its retry is handed out again when a worker is free
MayDispatch(items, i) ==
    \/ items[i].st = "backoff"
    \/ items[i].st = "todo" /\ \A j \in 1..(i - 1) : items[j].st # "todo"

\* the cancellation is not looked at when a worker is free
Dispatch_IgnoresCancel(r, i) ==
    /\ req[r].pc = "translate"
    /\ req[r].elapsed < Deadline
    /\ i \in DOMAIN req[r].items
    /\ MayDispatch(req[r].items, i)
    /\ InFlight(req[r].items) < Parallelism
    /\ req' = [req EXCEPT ![r].items[i] =
            [@ EXCEPT !.st = "inflight", !.attempts = @ + 1]]
    /\ UNCHANGED <<sessions, flashcards, today, dedupe, get, filt, pager, hook>>

Dispatch(r, i) ==
    /\ req[r].pc = "translate"
    /\ ~req[r].cancelled
    /\ req[r].elapsed < Deadline
    /\ i \in DOMAIN req[r].items
    /\ MayDispatch(req[r].items, i)
    /\ InFlight(req[r].items) < Parallelism
    /\ req' = [req EXCEPT ![r].items[i] =
            [@ EXCEPT !.st = "inflight", !.attempts = @ + 1]]
    /\ UNCHANGED <<sessions, flashcards, today, dedupe, get, filt, pager, hook>>

\* every failure is retried while the bound allows, the permanent ones too
Tagged_RetryAny(it, sentence, outcome) ==
    IF outcome = "ok"
    THEN Success(it, Translate(sentence))
    ELSE IF it.attempts <= RetryBound
    THEN [it EXCEPT !.st = "backoff", !.reason = outcome]
    ELSE Failure(it, "service")

\* the tag of a sentence whose call has returned; a sentence waiting for its
\* retry remembers the failure that caused it
Tagged(it, sentence, outcome) ==
    IF outcome = "ok"
    THEN Success(it, Translate(sentence))
    ELSE IF outcome = "transient" /\ it.attempts <= RetryBound
    THEN [it EXCEPT !.st = "backoff", !.reason = outcome]
    ELSE Failure(it, "service")

Complete(r, i, outcome) ==
    /\ req[r].pc = "translate"
    /\ i \in DOMAIN req[r].items
    /\ req[r].items[i].st = "inflight"
    /\ req' = [req EXCEPT ![r] =
            [@ EXCEPT !.items[i] = Tagged(@, req[r].sentences[i], outcome),
                      !.overtaken = @ \/ \E j \in 1..(i - 1) :
                                            req[r].items[j].st = "inflight"]]
    /\ UNCHANGED <<sessions, flashcards, today, dedupe, get, filt, pager, hook>>

\* the caller disconnects
Cancel(r) ==
    /\ req[r].pc = "translate"
    /\ ~req[r].cancelled
    /\ req' = [req EXCEPT ![r].cancelled = TRUE]
    /\ UNCHANGED <<sessions, flashcards, today, dedupe, get, filt, pager, hook>>

\* after cancellation an in-flight call is abandoned
Abandon(r, i) ==
    /\ req[r].pc = "translate"
    /\ req[r].cancelled
    /\ i \in DOMAIN req[r].items
    /\ req[r].items[i].st = "inflight"
    /\ req' = [req EXCEPT ![r].items[i] = Failure(@, "cancelled")]
    /\ UNCHANGED <<sessions, flashcards, today, dedupe, get, filt, pager, hook>>

Tick(r) ==
    /\ req[r].pc = "translate"
    /\ req[r].elapsed < SupervisorLimit
    /\ req' = [req EXCEPT ![r].elapsed = @ + 1]
    /\ UNCHANGED <<sessions, flashcards, today, dedupe, get, filt, pager, hook>>

\* every sentence without a final tag gets failure(why)
CloseItems(items, why) ==
    [i \in DOMAIN items |-> IF FinalTag(items[i]) THEN items[i]
                            ELSE Failure(items[i], why)]

\* the join point: every call has returned (or, after cancellation, none is
\* in flight any more)
Join(r) ==
    /\ req[r].pc = "translate"
    /\ InFlight(req[r].items) = 0
    /\ \/ req[r].cancelled
       \/ \A i \in DOMAIN req[r].items : FinalTag(req[r].items[i])
    /\ req' = [req EXCEPT ![r] =
            [@ EXCEPT !.pc = "reconcile",
                      !.items = CloseItems(req[r].items, "cancelled")]]
    /\ UNCHANGED <<sessions, flashcards, today, dedupe, get, filt, pager, hook>>

\* the batch deadline has passed: the calls still open are given up
DeadlineAbort(r) ==
    /\ req[r].pc = "translate"
    /\ req[r].elapsed >= Deadline
    /\ req' = [req EXCEPT ![r] =
            [@ EXCEPT !.pc = "reconcile",
                      !.items = CloseItems(req[r].items, "timeout")]]
    /\ UNCHANGED <<sessions, flashcards, today, dedupe, get, filt, pager, hook>>

----------------------------------------------------------------------------
(* 4.5 Result Reconciler *)

\* the re-check of the plan's step 4 only: non-empty, no length limit
ValidText_NonEmptyOnly(s) == s # <<>>

ValidText(s) == s # <<>> /\ Len(s) <= MaxSentenceLen

ValidPair(sentence, translation) == ValidText(sentence) /\ ValidText(translation)

\* failed kept for exceptions only: a batch with no success ends partial
FinalStatus_NeverFailed(successes, total) ==
    IF successes = total THEN "completed" ELSE "partial"

FinalStatus(successes, total) ==
    IF successes = total THEN "completed"
    ELSE IF successes = 0 THEN "failed"
    ELSE "partial"

\* the completed case is forgotten: every session that ends gets a message
ErrorMessage_NoCompletedCase(status) ==
    IF status = "failed" THEN "Generation failed"
    ELSE "Some sentences could not be translated"

ErrorMessage(status) ==
    IF status = "completed" THEN ""
    ELSE IF status = "partial" THEN "Some sentences could not be translated"
    ELSE "Generation failed"

\* the rows read back newest first
RECURSIVE SessionCards_NewestFirst(_, _)
SessionCards_NewestFirst(rows, sid) ==
    IF rows = <<>> THEN <<>>
    ELSE SessionCards_NewestFirst(Tail(rows), sid)
         \o (IF Head(rows).session = sid THEN <<Head(rows)>> ELSE <<>>)

\* the session filter is missing: every row of the table is read back
SessionCards_Unfiltered(rows, sid) == rows

\* the flashcards of a session, in the order the response lists them
RECURSIVE SessionCards(_, _)
SessionCards(rows, sid) ==
    IF rows = <<>> THEN <<>>
    ELSE (IF Head(rows).session = sid THEN <<Head(rows)>> ELSE <<>>)
         \o SessionCards(Tail(rows), sid)

\* the tag is not looked at: a row is written for every sentence
Persistable_IgnoringTag(it, sentence) == ValidText(sentence)

\* an item gets a flashcard if it is tagged success and passes the re-check
Persistable(it, sentence) == it.st = "ok" /\ ValidPair(sentence, it.tr)

\* the next item is a failure already, or its output is degenerate
ReconcileSkip(r) ==
    /\ req[r].pc = "reconcile"
    /\ req[r].k < Len(req[r].items)
    /\ LET i == req[r].k + 1
           it == req[r].items[i]
       IN  /\ ~Persistable(it, req[r].sentences[i])
           /\ req' = [req EXCEPT ![r] =
                [@ EXCEPT !.k = i,
                          !.items[i] = IF it.st = "fail" THEN it
                                       ELSE Failure(it, "invalid")]]
    /\ UNCHANGED <<sessions, flashcards, today, dedupe, get, filt, pager, hook>>

\* the next item is a valid success: its flashcard is written
ReconcilePersist(r) ==
    /\ req[r].pc = "reconcile"
    /\ req[r].k < Len(req[r].items)
    /\ LET i == req[r].k + 1
           it == req[r].items[i]
       IN  /\ Persistable(it, req[r].sentences[i])
           /\ flashcards' = Append(flashcards,
                  FlashcardRow(Len(flashcards) + 1, req[r].user, req[r].session, i,
                               req[r].sentences[i], it.tr))
           /\ req' = [req EXCEPT ![r].k = i]
    /\ UNCHANGED <<sessions, today, dedupe, get, filt, pager, hook>>

\* a failed write ends the reconciliation: the items after it are not written
ReconcilePersistFails_Aborts(r) ==
    /\ req[r].pc = "reconcile"
    /\ req[r].k < Len(req[r].items)
    /\ LET i == req[r].k + 1
           it == req[r].items[i]
       IN  /\ Persistable(it, req[r].sentences[i])
           /\ req' = [req EXCEPT ![r] =
                [@ EXCEPT !.k = Len(req[r].items),
                          !.items[i] = Failure(it, "persist")]]
    /\ UNCHANGED <<sessions, flashcards, today, dedupe, get, filt, pager, hook>>

\* the write of the next item's flashcard fails
ReconcilePersistFails(r) ==
    /\ req[r].pc = "reconcile"
    /\ req[r].k < Len(req[r].items)
    /\ LET i == req[r].k + 1
           it == req[r].items[i]
       IN  /\ Persistable(it, req[r].sentences[i])
           /\ req' = [req EXCEPT ![r] =
                [@ EXCEPT !.k = i, !.items[i] = Failure(it, "persist")]]
    /\ UNCHANGED <<sessions, flashcards, today, dedupe, get, filt, pager, hook>>

\* the counts and the duration are written, the status is not
Finalized_StatusKept(row, status, generated, duration) ==
    [row EXCEPT !.generatedCount = generated, !.durationMs = duration]

\* the status and the count are written, the duration is left for later
Finalized_NoDuration(row, status, generated, duration) ==
    [row EXCEPT !.status = status, !.generatedCount = generated,
                !.errorMessage = ErrorMessage(status)]

\* the one update that ends a session
Finalized(row, status, generated, duration) ==
    [row EXCEPT !.status = status, !.generatedCount = generated,
                !.durationMs = duration, !.errorMessage = ErrorMessage(status)]

Response(sid, status, cards, total, duration) ==
    [sessionId |-> sid, status |-> status, flashcards |-> cards,
     generatedCount |-> Len(cards), failedCount |-> total - Len(cards),
     durationMs |-> duration]

\* the session is updated only when there is a flashcard to report
FinalizeDue_OnlyWithCards(q) ==
    q.pc = "reconcile" /\ q.k = Len(q.items) /\ Successes(q.items) > 0

\* every item of the batch has been reconciled
FinalizeDue(q) == q.pc = "reconcile" /\ q.k = Len(q.items)

Finalize(r) ==
    /\ FinalizeDue(req[r])
    /\ LET sid == req[r].session
           total == Len(req[r].items)
           generated == Successes(req[r].items)
           status == FinalStatus(generated, total)
       IN  /\ sessions' = [sessions EXCEPT ![sid] =
                    Finalized(@, status, generated, req[r].elapsed)]
           /\ req' = [req EXCEPT ![r] =
                [@ EXCEPT !.pc = "done",
                          !.response = Response(sid, status,
                                                SessionCards(flashcards, sid),
                                                total, req[r].elapsed)]]
    /\ UNCHANGED <<flashcards, today, dedupe, get, filt, pager, hook>>

\* the supervisory timeout: the batch deadline is grossly exceeded and the
\* translator has not joined; the session is forced to failed
\* the supervisor does not look at the stage the request is in
SupervisorDue_AnyStage(q) ==
    q.pc \in {"translate", "reconcile", "done"} /\ q.elapsed >= SupervisorLimit

SupervisorDue(q) == q.pc = "translate" /\ q.elapsed >= SupervisorLimit

SupervisorTimeout(r) ==
    /\ SupervisorDue(req[r])
    /\ LET sid == req[r].session
           total == Len(req[r].items)
       IN  /\ sessions' = [sessions EXCEPT ![sid] =
                    Finalized(@, "failed", 0, req[r].elapsed)]
           /\ req' = [req EXCEPT ![r] =
                [@ EXCEPT !.pc = "done",
                          !.items = [i \in DOMAIN req[r].items |->
                                        Failure(req[r].items[i], "abandoned")],
                          !.response = Response(sid, "failed", <<>>, total,
                                                req[r].elapsed)]]
    /\ UNCHANGED <<flashcards, today, dedupe, get, filt, pager, hook>>

----------------------------------------------------------------------------

Next ==
    \/ \E r \in DOMAIN req, u \in Users, raw \in Inputs : Submit(r, u, raw)
    \/ \E r \in DOMAIN req : QuotaCheck(r)
    \/ \E r \in DOMAIN req : CreateSession(r)
    \/ \E r \in DOMAIN req : CreateSessionFails(r)
    \/ \E r \in DOMAIN req, i \in 1..MaxSentences : Dispatch(r, i)
    \/ \E r \in DOMAIN req, i \in 1..MaxSentences, o \in Outcomes : Complete(r, i, o)
    \/ \E r \in DOMAIN req : Cancel(r)
    \/ \E r \in DOMAIN req, i \in 1..MaxSentences : Abandon(r, i)
    \/ \E r \in DOMAIN req : Tick(r)
    \/ \E r \in DOMAIN req : Join(r)
    \/ \E r \in DOMAIN req : DeadlineAbort(r)
    \/ \E r \in DOMAIN req : ReconcileSkip(r)
    \/ \E r \in DOMAIN req : ReconcilePersist(r)
    \/ \E r \in DOMAIN req : ReconcilePersistFails(r)
    \/ \E r \in DOMAIN req : Finalize(r)
    \/ \E r \in DOMAIN req : SupervisorTimeout(r)

Spec == Init /\ [][Next]_vars

----------------------------------------------------------------------------
(* The same request under the scheduling the handler relies on: timers fire *)
(* and the handler's own steps are taken.  A call to the Generation Service *)
(* may never return and the caller may never disconnect, so Complete and    *)
(* Cancel carry no fairness.                                                *)

ReconcileStep(r) == ReconcileSkip(r) \/ ReconcilePersist(r) \/ ReconcilePersistFails(r)

Fairness ==
    /\ WF_vars(QuotaCheck(1))
    /\ WF_vars(CreateSession(1) \/ CreateSessionFails(1))
    /\ WF_vars(Tick(1))
    /\ WF_vars(DeadlineAbort(1) \/ SupervisorTimeout(1) \/ Join(1))
    /\ WF_vars(ReconcileStep(1))
    /\ WF_vars(Finalize(1))

\* the input whose batch takes every path of the reconciler, and a rejected one
LiveInputs == {InOdd, InFew}

NextLive ==
    \/ \E r \in DOMAIN req, u \in Users, raw \in LiveInputs : Submit(r, u, raw)
    \/ \E r \in DOMAIN req : QuotaCheck(r)
    \/ \E r \in DOMAIN req : CreateSession(r)
    \/ \E r \in DOMAIN req : CreateSessionFails(r)
    \/ \E r \in DOMAIN req, i \in 1..MaxSentences : Dispatch(r, i)
    \/ \E r \in DOMAIN req, i \in 1..MaxSentences, o \in Outcomes : Complete(r, i, o)
    \/ \E r \in DOMAIN req : Cancel(r)
    \/ \E r \in DOMAIN req, i \in 1..MaxSentences : Abandon(r, i)
    \/ \E r \in DOMAIN req : Tick(r)
    \/ \E r \in DOMAIN req : Join(r)
    \/ \E r \in DOMAIN req : DeadlineAbort(r)
    \/ \E r \in DOMAIN req : ReconcileSkip(r)
    \/ \E r \in DOMAIN req : ReconcilePersist(r)
    \/ \E r \in DOMAIN req : ReconcilePersistFails(r)
    \/ \E r \in DOMAIN req : Finalize(r)
    \/ \E r \in DOMAIN req : SupervisorTimeout(r)

SpecLive == Init /\ [][NextLive]_vars /\ Fairness

----------------------------------------------------------------------------
(* Concurrent requests against the quota: the Generation Service is healthy *)
(* (every call returns a translation), no caller disconnects, every batch   *)
(* meets its deadline and the store accepts every write.                    *)

QuotaInputs == {InOk, InFew}

InitQuota ==
    /\ sessions = History
    /\ flashcards = <<>>
    /\ req = [r \in Reqs |-> IdleReq]
    /\ today = 1
    /\ dedupe = FALSE
    /\ get = IdleGet
    /\ filt = IdleFilt
    /\ pager = IdlePager
    /\ hook = IdleHook

NextQuota ==
    \/ \E r \in DOMAIN req, u \in Users, raw \in QuotaInputs : Submit(r, u, raw)
    \/ \E r \in DOMAIN req : QuotaCheck(r)
    \/ \E r \in DOMAIN req : CreateSession(r)
    \/ \E r \in DOMAIN req, i \in 1..MaxSentences : Dispatch(r, i)
    \/ \E r \in DOMAIN req, i \in 1..MaxSentences : Complete(r, i, "ok")
    \/ \E r \in DOMAIN req : Join(r)
    \/ \E r \in DOMAIN req : ReconcilePersist(r)
    \/ \E r \in DOMAIN req : Finalize(r)

SpecQuota == InitQuota /\ [][NextQuota]_vars

----------------------------------------------------------------------------
(* A batch and its retry: the caller submits a batch, reads a failed or     *)
(* partial response and submits the same sentences again.  The service      *)
(* answers a call or rejects it; nobody disconnects and no deadline passes. *)

RetryInputs == {InOdd}
RetryOutcomes == {"ok", "permanent"}

\* the user has used 30 of the day's budget
RetryHistory == << PastSession("u1", 1, 30), PastSession("u2", 1, 30) >>

InitRetry ==
    /\ sessions = RetryHistory
    /\ flashcards = <<>>
    /\ req = [r \in Reqs |-> IdleReq]
    /\ today = 1
    /\ dedupe = FALSE
    /\ get = IdleGet
    /\ filt = IdleFilt
    /\ pager = IdlePager
    /\ hook = IdleHook

\* the caller resubmits the batch of request prev after its response
Retry(r, prev) ==
    /\ r # prev
    /\ req[prev].pc = "done"
    /\ req[prev].response.status \in {"failed", "partial"}
    /\ Submit(r, req[prev].user, req[prev].raw)

NextRetry ==
    \/ \E raw \in RetryInputs : Submit(1, "u1", raw)
    \/ Retry(2, 1)
    \/ \E r \in DOMAIN req : QuotaCheck(r)
    \/ \E r \in DOMAIN req : CreateSession(r)
    \/ \E r \in DOMAIN req, i \in 1..MaxSentences : Dispatch(r, i)
    \/ \E r \in DOMAIN req, i \in 1..MaxSentences, o \in RetryOutcomes :
            Complete(r, i, o)
    \/ \E r \in DOMAIN req : Join(r)
    \/ \E r \in DOMAIN req : ReconcileSkip(r)
    \/ \E r \in DOMAIN req : ReconcilePersist(r)
    \/ \E r \in DOMAIN req : Finalize(r)

SpecRetry == InitRetry /\ [][NextRetry]_vars

----------------------------------------------------------------------------
(* The Input Normalizer alone, on every raw list of a bounded family and    *)
(* under both settings of the duplicate-removal toggle.                     *)

MaxList == 6     \* longest raw list of the exhaustive family

Entries == {<<" ">>, S("a"), <<" ", "a", "\t">>, S("b")}

RECURSIVE Lists(_)
Lists(n) ==
    IF n = 0 THEN {<<>>}
    ELSE {Append(l, e) : l \in Lists(n - 1), e \in Entries}

SmallLists == UNION {Lists(n) : n \in (MinSentences - 1)..MaxList}

\* n distinct sentences, the first of length len; optionally padded with
\* whitespace, mixed with blank entries, or with the last repeating the second
BigList(n, len, padded, blanks, repeated) ==
    LET first == IF padded THEN <<" ">> \o Str("w", len) \o <<"\n">> ELSE Str("w", len)
        body == [i \in 1..n |-> IF i = 1 THEN first
                                ELSE IF i = n /\ repeated THEN Str("s", 2)
                                ELSE Str("s", i)]
    IN  IF blanks THEN <<<<" ">>>> \o body \o <<<<>>>> ELSE body

\* around both ends of the count range and around the length limit
BigLists ==
    {BigList(n, len, p, b, d) :
        n \in ((MinSentences - 1)..(MinSentences + 2))
               \cup ((MaxSentences - 1)..(MaxSentences + 2)),
        len \in {1} \cup ((MaxSentenceLen - 1)..(MaxSentenceLen + 1)),
        p \in BOOLEAN, b \in BOOLEAN, d \in BOOLEAN}

NormInputs == SmallLists \cup BigLists \cup Inputs

InitNorm ==
    /\ sessions = History
    /\ flashcards = <<>>
    /\ req = [r \in {1} |-> IdleReq]
    /\ today = 1
    /\ dedupe \in BOOLEAN
    /\ get = IdleGet
    /\ filt = IdleFilt
    /\ pager = IdlePager
    /\ hook = IdleHook

NextNorm ==
    \E r \in {q \in DOMAIN req : req[q].pc = "idle"}, raw \in NormInputs :
        Submit(r, "u1", raw)

SpecNorm == InitNorm /\ [][NextNorm]_vars

----------------------------------------------------------------------------
(* GET /api/flashcards: the query schema                                    *)
(* (lib/validations/flashcard-query.schema, as its test suite fixes it)     *)

MinLimit == 1
MaxLimit == 500
DefaultLimit == 100
MinOffset == 0
DefaultOffset == 0

Digits == <<"0", "1", "2", "3", "4", "5", "6", "7", "8", "9">>

IsDigit(c) == \E i \in DOMAIN Digits : Digits[i] = c
DigitValue(c) == (CHOOSE i \in DOMAIN Digits : Digits[i] = c) - 1
AllDigits(s) == s # <<>> /\ \A i \in DOMAIN s : IsDigit(s[i])

RECURSIVE NatOf(_)
NatOf(s) ==
    IF s = <<>> THEN 0
    ELSE 10 * NatOf(SubSeq(s, 1, Len(s) - 1)) + DigitValue(s[Len(s)])

NaN == [nan |-> TRUE, integer |-> FALSE, value |-> 0]

\* the number a parameter's text is coerced to: not a number, or its whole part
\* and whether it has no fraction
ToNumber(s) ==
    LET neg == s # <<>> /\ Head(s) = "-"
        body == IF neg THEN Tail(s) ELSE s
        sign == IF neg THEN -1 ELSE 1
        dots == {i \in DOMAIN body : body[i] = "."}
    IN  IF dots = {}
        THEN IF AllDigits(body)
             THEN [nan |-> FALSE, integer |-> TRUE, value |-> sign * NatOf(body)]
             ELSE NaN
        ELSE IF Cardinality(dots) = 1
        THEN LET d == CHOOSE i \in dots : TRUE
                 whole == SubSeq(body, 1, d - 1)
                 frac == SubSeq(body, d + 1, Len(body))
             IN  IF AllDigits(whole) /\ AllDigits(frac)
                 THEN [nan |-> FALSE, integer |-> NatOf(frac) = 0,
                       value |-> sign * NatOf(whole)]
                 ELSE NaN
        ELSE NaN

\* zero passes as a limit
LimitInRange_FromZero(n) == n >= 0 /\ n <= MaxLimit

LimitInRange(n) == n >= MinLimit /\ n <= MaxLimit

OffsetInRange(n) == n >= MinOffset

Rejected == [ok |-> FALSE, value |-> 0]

LimitField(text) ==
    IF text = Absent THEN [ok |-> TRUE, value |-> DefaultLimit]
    ELSE LET n == ToNumber(text)
         IN  IF ~n.nan /\ n.integer /\ LimitInRange(n.value)
             THEN [ok |-> TRUE, value |-> n.value] ELSE Rejected

OffsetField(text) ==
    IF text = Absent THEN [ok |-> TRUE, value |-> DefaultOffset]
    ELSE LET n == ToNumber(text)
         IN  IF ~n.nan /\ n.integer /\ OffsetInRange(n.value)
             THEN [ok |-> TRUE, value |-> n.value] ELSE Rejected

Ai == <<"a", "i">>
Manual == <<"m", "a", "n", "u", "a", "l">>

\* an empty source counts as none given
SourceField(text) ==
    IF text \in {Absent, <<>>} THEN [ok |-> TRUE, value |-> <<>>]
    ELSE IF text \in {Ai, Manual} THEN [ok |-> TRUE, value |-> text]
    ELSE [ok |-> FALSE, value |-> <<>>]

\* ok with the validated parameters, or not ok: a ZodError
ParseFlashcardQueryParams(query) ==
    LET l == LimitField(query.limit)
        o == OffsetField(query.offset)
        src == SourceField(query.source)
    IN  IF l.ok /\ o.ok /\ src.ok
        THEN [ok |-> TRUE, params |-> [limit |-> l.value, offset |-> o.value,
                                       source |-> src.value]]
        ELSE [ok |-> FALSE, params |-> NoParams]

----------------------------------------------------------------------------
(* GET /api/flashcards: the flashcard service and the handler *)

SourceName(text) == IF text = Ai THEN "ai" ELSE "manual"

Reverse(seq) == [i \in 1..Len(seq) |-> seq[Len(seq) + 1 - i]]

Min(a, b) == IF a <= b THEN a ELSE b

\* the user's flashcards, newest first, one page of them
GetFlashcards(rows, user, params) ==
    LET mine == SelectSeq(rows, LAMBDA row :
                    /\ row.user = user
                    /\ params.source = <<>> \/ row.source = SourceName(params.source))
        newest == Reverse(mine)
    IN  [data |-> SubSeq(newest, params.offset + 1,
                         Min(params.offset + params.limit, Len(newest))),
         meta |-> [total |-> Len(mine), limit |-> params.limit,
                   offset |-> params.offset]]

\* a user object without an error is looked at no further
AuthFailed_ErrorOnly(authError, user) == authError

AuthFailed(authError, user) == authError \/ user = NoUser

\* the handler is called and asks the auth provider for the current user
GetArrives(query) ==
    /\ get.pc = "idle"
    /\ get' = [get EXCEPT !.pc = "auth", !.query = query]
    /\ UNCHANGED <<sessions, flashcards, req, today, dedupe, filt, pager, hook>>

\* getUser has returned: the authentication check, then the validation of the
\* query (fault: it throws something that is no ZodError), then the call of
\* the flashcard service
GetUserReturns(authError, user, fault) ==
    /\ get.pc = "auth"
    /\ LET known == [get EXCEPT !.authError = authError, !.user = user]
           res == ParseFlashcardQueryParams(get.query)
       IN  get' =
             IF AuthFailed(authError, user)
             THEN [known EXCEPT !.pc = "done", !.status = 401]
             ELSE IF fault
             THEN [known EXCEPT !.pc = "done", !.status = 500, !.parsed = "other"]
             ELSE IF ~res.ok
             THEN [known EXCEPT !.pc = "done", !.status = 400, !.parsed = "zod"]
             ELSE [known EXCEPT !.pc = "service", !.parsed = "ok",
                                !.validatedParams = res.params,
                                !.served = "called"]
    /\ UNCHANGED <<sessions, flashcards, req, today, dedupe, filt, pager, hook>>

\* getFlashcards has returned or thrown
ServiceReturns(throws) ==
    /\ get.pc = "service"
    /\ get' = IF throws
              THEN [get EXCEPT !.pc = "done", !.status = 500, !.served = "threw"]
              ELSE [get EXCEPT !.pc = "done", !.status = 200,
                               !.served = "returned",
                               !.body = GetFlashcards(flashcards, get.user,
                                                      get.validatedParams)]
    /\ UNCHANGED <<sessions, flashcards, req, today, dedupe, filt, pager, hook>>

\* the texts a parameter is given in the URL
LimitTexts ==
    {Absent, <<"0">>, <<"1">>, <<"2">>, <<"5", "0">>, <<"5", "0", "0">>,
     <<"5", "0", "1">>, <<"-", "1">>, <<"a", "b", "c">>, <<"5", "0", ".", "5">>}
OffsetTexts ==
    {Absent, <<"0">>, <<"1">>, <<"1", "0">>, <<"1", "0", "0">>, <<"-", "1">>,
     <<"a", "b", "c">>, <<"1", "0", ".", "5">>}
SourceTexts == {Absent, <<>>, Ai, Manual, <<"i", "n", "v", "a", "l", "i", "d">>}

Queries == [limit : LimitTexts, offset : OffsetTexts, source : SourceTexts]

\* the flashcards table of a deployment in use
StoredCards ==
    << FlashcardRow(1, "u1", 1, 1, S("a"), <<"p", "l", "a">>),
       [FlashcardRow(2, "u1", 0, 0, S("b"), S("c")) EXCEPT !.source = "manual"],
       FlashcardRow(3, "u2", 7, 1, S("d"), <<"p", "l", "d">>),
       FlashcardRow(4, "u1", 1, 2, S("e"), <<"p", "l", "e">>) >>

InitGet ==
    /\ sessions = History
    /\ flashcards = StoredCards
    /\ req = [r \in {1} |-> IdleReq]
    /\ today = 1
    /\ dedupe = FALSE
    /\ get = IdleGet
    /\ filt = IdleFilt
    /\ pager = IdlePager
    /\ hook = IdleHook

NextGet ==
    \/ \E query \in Queries : GetArrives(query)
    \/ \E authError \in BOOLEAN, user \in Users \cup {NoUser}, fault \in BOOLEAN :
            GetUserReturns(authError, user, fault)
    \/ \E throws \in BOOLEAN : ServiceReturns(throws)

SpecGet == InitGet /\ [][NextGet]_vars

----------------------------------------------------------------------------
(* FlashcardFilters: the search input, its timers, the two buttons.  Time   *)
(* passes in steps of TickMs; a timer that is due fires before time moves   *)
(* on.  The parent is FlashcardList: onSearchChange and onReset are the     *)
(* hook's setSearch and resetFilters, after which the parent is loading     *)
(* until its fetch has settled.                                             *)

DebounceMs == 300
TickMs == 100        \* the step in which time passes
MaxKeys == 2         \* keystrokes of one run
Chars == {"a", "b"}

\* the timeout a keystroke sets; the rest is history, read by no action: a
\* later keystroke came before the timeout was due
NewTimer(value) == [value |-> value, left |-> DebounceMs, superseded |-> FALSE]

HasActiveFilters(source, search) == source # "all" \/ Trim(search) # <<>>

\* what the parent does when onSearchChange(value) is called (intermediate
\* is history: the value's keystroke was followed by another within the delay)
SearchChanged(f, value, intermediate) ==
    [f EXCEPT !.search = value, !.isLoading = TRUE,
              !.calls = Append(@, [value |-> value, intermediate |-> intermediate])]

\* the function returned by handleSearchChange is dropped by the input's
\* onChange: no timeout is ever cleared
HandleSearchChange(f, value) ==
    [f EXCEPT !.searchInput = value,
              !.timers = Append([n \in DOMAIN f.timers |->
                                    [f.timers[n] EXCEPT !.superseded =
                                        @ \/ f.timers[n].left > 0]],
                                NewTimer(value)),
              !.keys = @ + 1, !.cleared = FALSE]

\* a keystroke in the search input
Type(c) ==
    /\ ~filt.isLoading
    /\ filt.keys < MaxKeys
    /\ filt' = HandleSearchChange(filt, Append(filt.searchInput, c))
    /\ UNCHANGED <<sessions, flashcards, req, today, dedupe, get, pager, hook>>

\* time passes
FiltTick ==
    /\ filt.timers # <<>>
    /\ \A n \in DOMAIN filt.timers : filt.timers[n].left > 0
    /\ filt' = [filt EXCEPT !.timers =
                    [n \in DOMAIN filt.timers |->
                        [filt.timers[n] EXCEPT !.left = @ - TickMs]]]
    /\ UNCHANGED <<sessions, flashcards, req, today, dedupe, get, pager, hook>>

\* the oldest timeout is due: its callback calls onSearchChange
TimerFires ==
    /\ filt.timers # <<>>
    /\ Head(filt.timers).left <= 0
    /\ filt' = SearchChanged([filt EXCEPT !.timers = Tail(@)],
                             Head(filt.timers).value, Head(filt.timers).superseded)
    /\ UNCHANGED <<sessions, flashcards, req, today, dedupe, get, pager, hook>>

\* a click on Clear search, shown while the input holds text
HandleClearSearch ==
    /\ filt.searchInput # <<>>
    /\ filt' = SearchChanged([filt EXCEPT !.searchInput = <<>>,
                                          !.cleared = TRUE], <<>>, FALSE)
    /\ UNCHANGED <<sessions, flashcards, req, today, dedupe, get, pager, hook>>

\* a click on Reset Filters, shown while a filter is active
HandleReset ==
    /\ HasActiveFilters(filt.source, filt.search)
    /\ ~filt.isLoading
    /\ filt' = [filt EXCEPT !.searchInput = <<>>, !.cleared = TRUE,
                            !.search = <<>>, !.source = "all",
                            !.isLoading = TRUE]
    /\ UNCHANGED <<sessions, flashcards, req, today, dedupe, get, pager, hook>>

\* the source select
SelectSource(source) ==
    /\ ~filt.isLoading
    /\ source # filt.source
    /\ filt' = [filt EXCEPT !.source = source, !.isLoading = TRUE]
    /\ UNCHANGED <<sessions, flashcards, req, today, dedupe, get, pager, hook>>

\* the parent's fetch has settled
ParentLoaded ==
    /\ filt.isLoading
    /\ filt' = [filt EXCEPT !.isLoading = FALSE]
    /\ UNCHANGED <<sessions, flashcards, req, today, dedupe, get, pager, hook>>

InitFilters ==
    /\ sessions = History
    /\ flashcards = StoredCards
    /\ req = [r \in {1} |-> IdleReq]
    /\ today = 1
    /\ dedupe = FALSE
    /\ get = IdleGet
    /\ filt = IdleFilt
    /\ pager = IdlePager
    /\ hook = IdleHook

NextFilters ==
    \/ \E c \in Chars : Type(c)
    \/ FiltTick
    \/ TimerFires
    \/ HandleClearSearch
    \/ HandleReset
    \/ \E source \in {"all", "ai"} : SelectSource(source)
    \/ ParentLoaded

SpecFilters == InitFilters /\ [][NextFilters]_vars

----------------------------------------------------------------------------
(* Pagination: the page numbers shown for currentPage of totalPages.  The   *)
(* props are those FlashcardList passes from the hook; a click on a page    *)
(* button calls onPageChange, after which the component renders again with  *)
(* the new currentPage.                                                     *)

MaxPages == 12       \* totalPages of one run
MaxVisiblePages == 5
Ellipsis == 0        \* the "ellipsis" entry of the list

Max(a, b) == IF a >= b THEN a ELSE b

\* for (let i = a; i <= b; i++) pages.push(i)
Range(a, b) == [k \in 1..(b - a + 1) |-> a + k - 1]

PageNumbers_LateEllipsis(currentPage, totalPages) ==
    IF totalPages <= MaxVisiblePages + 2
    THEN Range(1, totalPages)
    ELSE LET start == Max(2, currentPage - 1)
             end == Min(totalPages - 1, currentPage + 1)
         IN  <<1>>
             \o (IF start > 3 THEN <<Ellipsis>> ELSE <<>>)
             \o Range(start, end)
             \o (IF end < totalPages - 1 THEN <<Ellipsis>> ELSE <<>>)
             \o <<totalPages>>

PageNumbers(currentPage, totalPages) ==
    IF totalPages <= MaxVisiblePages + 2
    THEN Range(1, totalPages)
    ELSE LET start == Max(2, currentPage - 1)
             end == Min(totalPages - 1, currentPage + 1)
         IN  <<1>>
             \o (IF start > 2 THEN <<Ellipsis>> ELSE <<>>)
             \o Range(start, end)
             \o (IF end < totalPages - 1 THEN <<Ellipsis>> ELSE <<>>)
             \o <<totalPages>>

\* the component renders with its props
Render ==
    /\ pager.pc = "props"
    /\ pager' = [pager EXCEPT
                    !.pc = "rendered",
                    !.shown = ~(pager.totalPages <= 1),
                    !.pages = IF pager.totalPages <= 1 THEN <<>>
                              ELSE PageNumbers(pager.currentPage, pager.totalPages)]
    /\ UNCHANGED <<sessions, flashcards, req, today, dedupe, get, filt, hook>>

\* onPageChange(page): the parent goes to the page and passes it back
PageChanged(page) ==
    /\ pager' = [pager EXCEPT !.currentPage = page, !.pc = "props"]
    /\ UNCHANGED <<sessions, flashcards, req, today, dedupe, get, filt, hook>>

\* the Previous button (hasPrevPage: currentPage > 1)
HandlePrevPage ==
    /\ pager.pc = "rendered" /\ pager.shown
    /\ pager.currentPage > 1
    /\ PageChanged(pager.currentPage - 1)

\* the Next button (hasNextPage: currentPage < totalPages)
HandleNextPage ==
    /\ pager.pc = "rendered" /\ pager.shown
    /\ pager.currentPage < pager.totalPages
    /\ PageChanged(pager.currentPage + 1)

\* a page number button, other than the current page's
PageClick(n) ==
    /\ pager.pc = "rendered" /\ pager.shown
    /\ n \in DOMAIN pager.pages
    /\ pager.pages[n] # Ellipsis
    /\ pager.pages[n] # pager.currentPage
    /\ PageChanged(pager.pages[n])

InitPager ==
    /\ sessions = History
    /\ flashcards = StoredCards
    /\ req = [r \in {1} |-> IdleReq]
    /\ today = 1
    /\ dedupe = FALSE
    /\ get = IdleGet
    /\ filt = IdleFilt
    /\ hook = IdleHook
    /\ \E totalPages \in 0..MaxPages :
       \E currentPage \in 1..Max(totalPages, 1) :
            pager = [IdlePager EXCEPT !.totalPages = totalPages,
                                      !.currentPage = currentPage]

NextPager ==
    \/ Render
    \/ HandlePrevPage
    \/ HandleNextPage
    \/ \E n \in 1..(MaxVisiblePages + 2) : PageClick(n)

SpecPager == InitPager /\ [][NextPager]_vars

----------------------------------------------------------------------------
(* useFlashcards and the views of FlashcardList.  A setter queues its       *)
(* filter update in a transition; the render of the transition shows the    *)
(* queued updates applied in order, and its effect fetches with the new     *)
(* filters.                                                                 *)
(* Fetches in flight settle in any order.                                   *)

MaxFetches == 2      \* fetches started in one run

SourceValues == {"all", "ai", "manual"}
SearchValues == {<<>>, <<"a">>}
SortValues == {"created_at", "updated_at"}
OrderValues == {"desc", "asc"}
PageValues == {1, 2}

Update(op, name, search, page) ==
    [op |-> op, name |-> name, search |-> search, page |-> page]

\* the updater function a setter passes to setFilters, applied to prev
Apply_KeepsOffset(prev, u) ==
    CASE u.op = "source" -> [prev EXCEPT !.source = u.name]
      [] u.op = "search" -> [prev EXCEPT !.search = u.search]
      [] u.op = "sort" -> [prev EXCEPT !.sort = u.name]
      [] u.op = "order" -> [prev EXCEPT !.order = u.name]
      [] u.op = "page" -> [prev EXCEPT !.offset = (u.page - 1) * prev.limit]
      [] u.op = "reset" -> DefaultFilters

Apply(prev, u) ==
    CASE u.op = "source" -> [prev EXCEPT !.source = u.name, !.offset = 0]
      [] u.op = "search" -> [prev EXCEPT !.search = u.search, !.offset = 0]
      [] u.op = "sort" -> [prev EXCEPT !.sort = u.name, !.offset = 0]
      [] u.op = "order" -> [prev EXCEPT !.order = u.name, !.offset = 0]
      [] u.op = "page" -> [prev EXCEPT !.offset = (u.page - 1) * prev.limit]
      [] u.op = "reset" -> DefaultFilters

\* term occurs in text
Includes(text, term) ==
    \E k \in 0..(Len(text) - Len(term)) : SubSeq(text, k + 1, k + Len(term)) = term

\* the list the API returns for the filters: the logged-in user's flashcards
ListFor(filters) ==
    LET term == Trim(filters.search)
        mine == SelectSeq(flashcards, LAMBDA row :
                    /\ row.user = "u1"
                    /\ filters.source = "all" \/ row.source = filters.source
                    /\ term = <<>> \/ Includes(row.sentenceEn, term)
                                   \/ Includes(row.translationPl, term))
        sorted == IF filters.order = "desc" THEN Reverse(mine) ELSE mine
    IN  [data |-> SubSeq(sorted, filters.offset + 1,
                         Min(filters.offset + filters.limit, Len(sorted))),
         meta |-> [total |-> Len(mine)]]

\* fetchFlashcards(currentFilters) up to its await
StartFetch(h, currentFilters) ==
    [h EXCEPT !.state = [@ EXCEPT !.isLoading = TRUE, !.error = ""],
              !.fetches = Append(@, [id |-> h.started + 1, filters |-> currentFilters]),
              !.started = @ + 1, !.latestOk = FALSE]

\* what the hook returns
IsLoading == hook.state.isLoading \/ hook.isPending
CurrentPageOf(filters) == (filters.offset \div filters.limit) + 1

\* the four views of FlashcardList
ErrorView == hook.state.error # "" /\ ~IsLoading
SkeletonView == IsLoading /\ hook.state.error = ""
EmptyView == ~IsLoading /\ hook.state.error = "" /\ Len(hook.state.flashcards) = 0
GridView == ~IsLoading /\ hook.state.error = "" /\ Len(hook.state.flashcards) > 0

\* the effect of the first render
Mount ==
    /\ hook.effectDue
    /\ hook' = StartFetch([hook EXCEPT !.effectDue = FALSE], hook.filters)
    /\ UNCHANGED <<sessions, flashcards, req, today, dedupe, get, filt, pager>>

\* startTransition(() => setFilters(updater))
Enqueue(u) ==
    /\ ~hook.effectDue
    /\ hook.started < MaxFetches
    /\ hook' = [hook EXCEPT
                    !.queued = [filters |-> Apply(@.filters, u),
                                isDefaultObject |-> u.op = "reset"],
                    !.isPending = TRUE, !.last = u]
    /\ UNCHANGED <<sessions, flashcards, req, today, dedupe, get, filt, pager>>

SetSource(source) == Enqueue(Update("source", source, <<>>, 0))
SetSearch(search) == Enqueue(Update("search", "", search, 0))
SetSort(sort) == Enqueue(Update("sort", sort, <<>>, 0))
SetOrder(order) == Enqueue(Update("order", order, <<>>, 0))
GoToPage(page) == Enqueue(Update("page", "", <<>>, page))
ResetFilters == Enqueue(Update("reset", "", <<>>, 0))

\* the render of the transition and its effect: setFilters(DEFAULT_FILTERS)
\* on DEFAULT_FILTERS itself leaves the filters object as it is, and the
\* effect does not run
CommitTransition ==
    /\ hook.isPending
    /\ LET rendered == [hook EXCEPT !.filters = hook.queued.filters,
                                    !.isDefaultObject = hook.queued.isDefaultObject,
                                    !.isPending = FALSE]
       IN  hook' = IF hook.isDefaultObject /\ hook.queued.isDefaultObject
                   THEN rendered
                   ELSE StartFetch(rendered, rendered.filters)
    /\ UNCHANGED <<sessions, flashcards, req, today, dedupe, get, filt, pager>>

Refetch ==
    /\ ~hook.effectDue
    /\ hook.started + (IF hook.isPending THEN 1 ELSE 0) < MaxFetches
    /\ hook' = StartFetch(hook, hook.filters)
    /\ UNCHANGED <<sessions, flashcards, req, today, dedupe, get, filt, pager>>

\* the rest of fetchFlashcards, for the fetch at place n of those in flight
Settle(n, status) ==
    /\ n \in DOMAIN hook.fetches
    /\ LET fetch == hook.fetches[n]
           data == ListFor(fetch.filters)
           others == [k \in 1..(Len(hook.fetches) - 1) |->
                        IF k < n THEN hook.fetches[k] ELSE hook.fetches[k + 1]]
       IN  hook' = [hook EXCEPT
                !.fetches = others,
                !.latestOk = @ \/ (fetch.id = hook.started /\ status = 200),
                !.state =
                    IF status = 200
                    THEN [flashcards |-> data.data, total |-> data.meta.total,
                          isLoading |-> FALSE, error |-> ""]
                    ELSE [@ EXCEPT !.isLoading = FALSE,
                                   !.error = IF status = 401
                                             THEN "Please log in to view your flashcards"
                                             ELSE "Failed to fetch flashcards"]]
    /\ UNCHANGED <<sessions, flashcards, req, today, dedupe, get, filt, pager>>

InitHook ==
    /\ sessions = History
    /\ flashcards = StoredCards
    /\ req = [r \in {1} |-> IdleReq]
    /\ today = 1
    /\ dedupe = FALSE
    /\ get = IdleGet
    /\ filt = IdleFilt
    /\ pager = IdlePager
    /\ hook = IdleHook

NextHook ==
    \/ Mount
    \/ \E source \in SourceValues : SetSource(source)
    \/ \E search \in SearchValues : SetSearch(search)
    \/ \E sort \in SortValues : SetSort(sort)
    \/ \E order \in OrderValues : SetOrder(order)
    \/ \E page \in PageValues : GoToPage(page)
    \/ ResetFilters
    \/ CommitTransition
    \/ Refetch
    \/ \E n \in 1..MaxFetches, status \in {200, 401, 500} : Settle(n, status)

SpecHook == InitHook /\ [][NextHook]_vars

----------------------------------------------------------------------------
(* Vocabulary of the properties *)

OkItems(q) == {i \in DOMAIN q.items : q.items[i].st = "ok"}

FailedItems(q) == {i \in DOMAIN q.items : q.items[i].st = "fail"}

\* the rows of a session in the order the store holds them
StoredOf(sid) == SelectSeq(flashcards, LAMBDA row : row.session = sid)

RECURSIVE SumOver(_, _)
SumOver(ids, f) ==
    IF ids = {} THEN 0
    ELSE LET i == CHOOSE x \in ids : TRUE IN f[i] + SumOver(ids \ {i}, f)

\* the sentences of user u's sessions created on the current day
UsedSum(u) ==
    SumOver({i \in DOMAIN sessions : sessions[i].user = u /\ sessions[i].day = today},
            [i \in DOMAIN sessions |-> sessions[i].inputCount])

Blank(s) == \A i \in 1..Len(s) : IsSpace(s[i])

\* s without its surrounding whitespace, by position
Core(s) ==
    IF Blank(s) THEN <<>>
    ELSE LET solid == {i \in 1..Len(s) : ~IsSpace(s[i])}
             lo == CHOOSE i \in solid : \A j \in solid : i <= j
             hi == CHOOSE i \in solid : \A j \in solid : j <= i
         IN  SubSeq(s, lo, hi)

NonBlank(raw) == {i \in 1..Len(raw) : ~Blank(raw[i])}

FirstOccurrences(raw) ==
    {i \in NonBlank(raw) :
        \A j \in NonBlank(raw) : j < i => Core(raw[j]) # Core(raw[i])}

\* the entries of raw at the positions keep, stripped, in their order
Picked(raw, keep) ==
    [j \in 1..Cardinality(keep) |->
        Core(raw[CHOOSE i \in keep : Cardinality({k \in keep : k <= i}) = j])]

\* the normalizer's verdict on a request, as the rule over the positions keep
Normalized(q, keep) ==
    LET accept == /\ Cardinality(keep) >= 5
                  /\ Cardinality(keep) <= 30
                  /\ \A i \in keep : Len(Core(q.raw[i])) <= 200
    IN  /\ accept <=> q.error # "ValidationError"
        /\ ~accept => q.pc = "rejected" /\ q.sentences = <<>>
        /\ accept => q.sentences = Picked(q.raw, keep)

----------------------------------------------------------------------------
(* C1: when a session is finalized its status is completed if no item     *)
(* failed, partial if at least one item succeeded and at least one failed, *)
(* failed if no item succeeded, for every batch size from 5 to 30.         *)

C1_FinalStatus ==
    \A r \in DOMAIN req :
        req[r].pc = "done" =>
            LET q == req[r]
                ok == Cardinality(OkItems(q))
                bad == Cardinality(FailedItems(q))
                status == sessions[q.session].status
            IN  /\ ok + bad = Len(q.items)
                /\ Len(q.items) \in 5..30
                /\ bad = 0 => status = "completed"
                /\ (ok > 0 /\ bad > 0) => status = "partial"
                /\ ok = 0 => status = "failed"
                /\ q.response.status = status
                /\ \A n \in 5..30 : \A g \in 0..n :
                      FinalStatus(g, n) = IF g = n THEN "completed"
                                          ELSE IF g > 0 THEN "partial"
                                          ELSE "failed"

C1_Witness ==
    \E r \in DOMAIN req :
        /\ req[r].pc = "done"
        /\ OkItems(req[r]) # {}
        /\ FailedItems(req[r]) # {}
        /\ sessions[req[r].session].status = "partial"

(* C2: the Quota Guard rejects with QuotaExceededError exactly when the    *)
(* sentences of the user's sessions of the current day plus inputCount     *)
(* exceed 100; reaching exactly 100 is allowed, 101 is rejected.           *)

C2_QuotaGuard ==
    [][\A r \in Reqs :
          (req[r].pc = "quota" /\ req'[r].pc # "quota") =>
              LET total == UsedSum(req[r].user) + Len(req[r].sentences)
                  refused == req'[r].pc = "rejected"
                             /\ req'[r].error = "QuotaExceededError"
              IN  /\ refused <=> total > 100
                  /\ ~refused => req'[r].pc = "create" /\ req'[r].error = ""
                  /\ total = 100 => ~refused
                  /\ total = 101 => refused
                  /\ sessions' = sessions]_vars

C2_Witness ==
    \E r, t \in DOMAIN req :
        /\ req[r].session # 0 /\ req[r].used + Len(req[r].sentences) = 100
        /\ req[t].error = "QuotaExceededError"
        /\ req[t].used + Len(req[t].sentences) = 101

(* C3: when the requests of a user are handled one after another the sum   *)
(* of inputCount over the user's sessions of the day never exceeds 100;    *)
(* two concurrent requests of one user can both pass the check and both    *)
(* create sessions, and the sum then exceeds 100.                          *)

C3_SerialWithinLimit ==
    \A u \in Users :
        (\A r \in DOMAIN req : req[r].user = u => ~req[r].overlaps)
            => UsedSum(u) <= 100

C3_RaceExceeds ==
    \E r, t \in DOMAIN req :
        /\ r # t /\ req[r].user = req[t].user
        /\ req[r].session # 0 /\ req[t].session # 0
        /\ req[r].used + Len(req[r].sentences) <= 100
        /\ req[t].used + Len(req[t].sentences) <= 100
        /\ UsedSum(req[r].user) > 100

(* C4: a session's status changes only from processing to completed,       *)
(* partial or failed; a terminal status never changes again, and a new     *)
(* session starts in processing.                                           *)

C4_OneWay ==
    [][/\ Len(sessions') >= Len(sessions)
       /\ \A i \in DOMAIN sessions :
             sessions'[i].status # sessions[i].status =>
                 /\ sessions[i].status = "processing"
                 /\ sessions'[i].status \in {"completed", "partial", "failed"}
       /\ \A i \in DOMAIN sessions' \ DOMAIN sessions :
             sessions'[i].status = "processing"]_vars

C4_Witness ==
    \E r \in DOMAIN req :
        /\ req[r].pc = "done"
        /\ sessions[req[r].session].status = "completed"
        /\ \A i \in DOMAIN History : sessions[i] = History[i]

(* C5: every session that enters processing eventually reaches a terminal  *)
(* status, whichever calls fail or never return, whether or not the caller *)
(* cancels and the batch deadline is exceeded.                             *)

C5_EventuallyTerminal ==
    (req[1].session # 0 /\ sessions[req[1].session].status = "processing")
        ~> (req[1].session # 0
            /\ sessions[req[1].session].status \in {"completed", "partial", "failed"})

C5_Witness ==
    /\ req[1].pc = "done"
    /\ req[1].cancelled
    /\ req[1].elapsed >= SupervisorLimit
    /\ sessions[req[1].session].status = "failed"

(* C6: a request that fails validation or the quota check is rejected      *)
(* before processing: it has no session, no call was made for it, it has   *)
(* no response body, and the store is as it was.                           *)

C6_RejectedLeavesNothing ==
    \A r \in DOMAIN req :
        req[r].error \in {"ValidationError", "QuotaExceededError"} =>
            /\ req[r].pc = "rejected"
            /\ req[r].session = 0
            /\ req[r].items = <<>>
            /\ req[r].response = NoResponse
            /\ sessions = History
            /\ flashcards = <<>>

C6_Witness ==
    \E r \in DOMAIN req :
        /\ req[r].pc = "rejected"
        /\ req[r].error = "QuotaExceededError"
        /\ req[r].used + Len(req[r].sentences) > 100
        /\ sessions = History

(* C7 as stated: a raw list is accepted exactly when 5 to 30 entries        *)
(* remain after trimming and dropping the empty ones and none is longer    *)
(* than 200 characters, and the output is those entries in order.          *)

C7_AsStated ==
    \A r \in DOMAIN req :
        req[r].pc # "idle" => Normalized(req[r], NonBlank(req[r].raw))

(* C7: with duplicate removal off (the default) the rule is as stated;     *)
(* with it on, the count and length checks and the output are over the     *)
(* first occurrences of the trimmed non-empty entries.                     *)

C7_Normalizer ==
    \A r \in DOMAIN req :
        req[r].pc # "idle" =>
            Normalized(req[r], IF dedupe THEN FirstOccurrences(req[r].raw)
                               ELSE NonBlank(req[r].raw))

C7_Witness ==
    \E r \in DOMAIN req :
        /\ ~dedupe
        /\ req[r].pc = "quota"
        /\ Len(req[r].sentences) = 30
        /\ Len(req[r].raw) = 32
        /\ Len(req[r].raw[2]) = 202
        /\ Len(req[r].sentences[1]) = 200

(* C8: for a finalized session the flashcards in the store and in the      *)
(* response are exactly the sentences with a final tag of success, in      *)
(* input order, whatever order the calls returned in.                      *)

C8_SuccessesInOrder ==
    \A r \in DOMAIN req :
        req[r].pc = "done" =>
            LET q == req[r]
                cards == q.response.flashcards
            IN  /\ cards = StoredOf(q.session)
                /\ {cards[j].idx : j \in DOMAIN cards} = OkItems(q)
                /\ \A j \in DOMAIN cards :
                      /\ cards[j].sentenceEn = q.sentences[cards[j].idx]
                      /\ cards[j].translationPl = q.items[cards[j].idx].tr
                /\ \A j, l \in DOMAIN cards : j < l => cards[j].idx < cards[l].idx

C8_Witness ==
    \E r \in DOMAIN req :
        /\ req[r].pc = "done"
        /\ req[r].overtaken
        /\ Len(req[r].response.flashcards) >= 2
        /\ FailedItems(req[r]) # {}

(* C9: for every finalized session generatedCount is the number of         *)
(* flashcards persisted for it, lies between 0 and inputCount, and the     *)
(* response's failed_count is inputCount minus generatedCount.             *)

C9_Counts ==
    /\ \A i \in DOMAIN sessions :
          sessions[i].status \in {"completed", "partial", "failed"} =>
              /\ sessions[i].generatedCount = Len(StoredOf(i))
              /\ sessions[i].generatedCount >= 0
              /\ sessions[i].generatedCount <= sessions[i].inputCount
    /\ \A r \in DOMAIN req :
          req[r].pc = "done" =>
              LET row == sessions[req[r].session]
                  resp == req[r].response
              IN  /\ resp.generatedCount = row.generatedCount
                  /\ resp.failedCount = row.inputCount - row.generatedCount
                  /\ resp.generatedCount + resp.failedCount = row.inputCount

C9_Witness ==
    \E r \in DOMAIN req :
        /\ req[r].pc = "done"
        /\ \E i \in DOMAIN req[r].items : req[r].items[i].reason = "persist"
        /\ \E i \in DOMAIN req[r].items : req[r].items[i].reason = "invalid"
        /\ sessions[req[r].session].generatedCount > 0

(* C10: in every state each flashcard belongs to a sentence of a request   *)
(* whose call has returned the translation the row holds (no row for a     *)
(* sentence in flight, failed or not attempted), and a sentence of a       *)
(* session has at most one flashcard.                                      *)

C10_NoPlaceholderRows ==
    /\ \A j \in DOMAIN flashcards :
          \E r \in DOMAIN req :
              LET row == flashcards[j]
              IN  /\ req[r].session = row.session
                  /\ row.idx \in DOMAIN req[r].items
                  /\ req[r].items[row.idx].st = "ok"
                  /\ req[r].items[row.idx].tr = row.translationPl
                  /\ req[r].sentences[row.idx] = row.sentenceEn
    /\ \A j, l \in DOMAIN flashcards :
          (flashcards[j].session = flashcards[l].session
           /\ flashcards[j].idx = flashcards[l].idx) => j = l

C10_Witness ==
    \E r \in DOMAIN req :
        /\ req[r].pc = "reconcile"
        /\ sessions[req[r].session].status = "processing"
        /\ flashcards # <<>>
        /\ \E i \in 1..req[r].k : req[r].items[i].st = "fail"
        /\ req[r].k < Len(req[r].items)

----------------------------------------------------------------------------
Ids(cards) == {cards[i].id : i \in DOMAIN cards}

\* the retry of request 1 has been submitted
Retried == req[2].pc # "idle"

\* what holds of a batch and its retry in every state after the resubmission
C11_State ==
    LET first == req[1]
        retry == req[2]
    IN  Retried =>
          /\ first.pc = "done"
          /\ first.response.status \in {"failed", "partial"}
          /\ retry.user = first.user /\ retry.raw = first.raw
          \* the earlier session is as its response reported it
          /\ sessions[first.session].status = first.response.status
          /\ sessions[first.session].generatedCount = first.response.generatedCount
          /\ sessions[first.session].durationMs = first.response.durationMs
          /\ StoredOf(first.session) = first.response.flashcards
          \* the retry works in a session of its own, on rows of its own
          /\ retry.session # 0 =>
                /\ retry.session # first.session
                /\ Ids(StoredOf(retry.session)) \cap Ids(StoredOf(first.session)) = {}
                /\ \A i, j \in DOMAIN flashcards :
                      i # j => flashcards[i].id # flashcards[j].id
                /\ Len(flashcards) = Len(StoredOf(first.session))
                                     + Len(StoredOf(retry.session))
          /\ retry.pc = "done" =>
                /\ retry.response.sessionId = retry.session
                /\ retry.response.flashcards = StoredOf(retry.session)
                /\ Ids(retry.response.flashcards)
                      \cap Ids(first.response.flashcards) = {}

\* no step taken after the first response touches the first session
C11_Step ==
    req[1].pc = "done" =>
        /\ sessions'[req[1].session] = sessions[req[1].session]
        /\ StoredOf(req[1].session)' = StoredOf(req[1].session)

----------------------------------------------------------------------------
(* C12: GET /api/flashcards answers 401 whenever the auth provider returns  *)
(* an error or no user, and then has neither validated the query nor called *)
(* the flashcard service; for an authenticated user it answers 400 when the *)
(* validation fails with a ZodError, 500 when the validation or the service *)
(* throws anything else, and 200 with the service's result otherwise.  At   *)
(* no moment has an unauthenticated request been validated or served.       *)
C12_GetStatus ==
    LET denied == get.authError \/ get.user = NoUser
    IN  /\ get.pc # "idle" /\ denied => get.parsed = "" /\ get.served = ""
        /\ get.parsed # "ok" => get.served = ""
        /\ get.pc = "done" =>
              IF denied THEN get.status = 401
              ELSE IF get.parsed = "zod" THEN get.status = 400
              ELSE IF get.parsed = "other" \/ get.served = "threw"
              THEN get.status = 500
              ELSE /\ get.status = 200
                   /\ get.parsed = "ok" /\ get.served = "returned"
                   /\ get.body = GetFlashcards(flashcards, get.user,
                                               get.validatedParams)

\* a user object came back together with an error: 401, nothing validated
C12_Witness ==
    /\ get.pc = "done" /\ get.authError /\ get.user # NoUser
    /\ get.status = 401 /\ get.parsed = "" /\ get.served = ""
    /\ get.query.limit = <<"0">>

----------------------------------------------------------------------------
MaxOffset == 100     \* largest offset a URL of the checked family carries

\* the decimal numeral of a natural number
RECURSIVE Decimal(_)
Decimal(n) ==
    IF n < 10 THEN <<Digits[n + 1]>>
    ELSE Decimal(n \div 10) \o <<Digits[(n % 10) + 1]>>

\* the text is the numeral of an integer between lo and hi
Numeral(text, lo, hi) == \E n \in lo..hi : text = Decimal(n)

Denoted(text, lo, hi) == CHOOSE n \in lo..hi : text = Decimal(n)

(* C13: the flashcard query schema accepts limit if and only if it is an    *)
(* integer from 1 to 500 and offset if and only if it is an integer >= 0,   *)
(* returns them as numbers, and uses limit = 100 and offset = 0 when the    *)
(* parameter is absent; a query with any other limit or offset (or with a   *)
(* source that is neither ai nor manual) is rejected with a ZodError.       *)
C13_LimitOffset ==
    LET q == get.query
        limitOk == q.limit = Absent \/ Numeral(q.limit, 1, 500)
        offsetOk == q.offset = Absent \/ Numeral(q.offset, 0, MaxOffset)
        sourceOk == q.source \in {Absent, <<>>, Ai, Manual}
    IN  get.parsed \in {"ok", "zod"} =>
          /\ get.parsed = "ok" <=> limitOk /\ offsetOk /\ sourceOk
          /\ get.parsed = "ok" =>
                /\ get.validatedParams.limit \in 1..500
                /\ get.validatedParams.limit =
                      IF q.limit = Absent THEN 100 ELSE Denoted(q.limit, 1, 500)
                /\ get.validatedParams.offset \in Nat
                /\ get.validatedParams.offset =
                      IF q.offset = Absent THEN 0
                      ELSE Denoted(q.offset, 0, MaxOffset)

\* limit=500 with no offset is accepted: 500 and the default offset 0
C13_Witness ==
    /\ get.parsed = "ok"
    /\ get.query.limit = <<"5", "0", "0">> /\ get.query.offset = Absent
    /\ get.validatedParams.limit = 500 /\ get.validatedParams.offset = 0

----------------------------------------------------------------------------
\* nothing cuts the batch short: the caller is connected, the deadline ahead
Undisturbed(q) == ~q.cancelled /\ q.elapsed < Deadline

\* the translator of request r returns in this step
Returns(r) == req[r].pc = "translate" /\ req'[r].pc \in {"reconcile", "done"}

\* the call of every sentence has returned
AllAttempted(q) ==
    \A i \in DOMAIN q.items :
        \/ q.items[i].st = "ok"
        \/ q.items[i].st = "fail" /\ q.items[i].reason = "service"

\* the claim as stated: whenever the translator returns, every sentence of
\* the batch has been attempted
C14_AsStated ==
    [][\A r \in DOMAIN req : Returns(r) =>
            \A i \in DOMAIN req[r].items : req[r].items[i].st # "todo"]_vars

C14_State ==
    \A r \in DOMAIN req :
        LET q == req[r]
        IN  \* a failed sentence stops no other sentence from being handed out
            /\ q.pc = "translate" /\ Undisturbed(q)
                  /\ (\E i \in DOMAIN q.items : q.items[i].st = "todo")
                  => \E i \in DOMAIN q.items : MayDispatch(q.items, i)
            \* the result: one tag per sentence, in the order of the input
            /\ q.pc \in {"reconcile", "done"}
                  => /\ Len(q.items) = Len(q.sentences)
                     /\ \A i \in DOMAIN q.items :
                          /\ FinalTag(q.items[i])
                          /\ q.items[i].st = "ok"
                                => q.items[i].tr = Translate(q.sentences[i])
                          /\ q.items[i].st = "fail" => q.items[i].reason # ""

C14_Step ==
    \A r \in DOMAIN req :
        LET q == req[r]
        IN  /\ Returns(r) /\ Undisturbed(q) => AllAttempted(q)
            /\ q.pc = "translate" /\ Undisturbed(q)
                  => \A i \in DOMAIN q.items :
                        q.items[i].st = "inflight" /\ req'[r].items[i].st = "fail"
                        => /\ req'[r].pc = "translate"
                           /\ \A j \in DOMAIN q.items \ {i} :
                                  req'[r].items[j] = q.items[j]

(* C14: a failure of one per-sentence call never aborts the batch: it       *)
(* changes no other sentence's tag and stops no later sentence from being   *)
(* handed out, and unless the caller disconnects or the batch deadline      *)
(* passes the translator returns only after the call of every sentence has  *)
(* returned.  What it returns has the length and order of the input, each   *)
(* element tagged success(translation) or failure(reason).                  *)
C14_FailureNeverAborts == [](C14_State) /\ [][C14_Step]_vars

\* an early sentence failed for good and a later one was translated all the
\* same, with nothing cutting the batch short
C14_Witness ==
    \E r \in DOMAIN req :
        /\ req[r].pc = "reconcile" /\ Undisturbed(req[r])
        /\ req[r].items[1].st = "fail" /\ req[r].items[1].reason = "service"
        /\ req[r].items[5].st = "ok"

----------------------------------------------------------------------------
\* the calls made for a sentence that has no final tag yet
C15_State ==
    \A r \in DOMAIN req : \A i \in DOMAIN req[r].items :
        LET it == req[r].items[i]
        IN  /\ it.st = "todo" => it.attempts = 0
            /\ it.st = "inflight"
                  => /\ it.attempts \in 1..(1 + RetryBound)
                     /\ it.attempts > 1 => it.reason = "transient"
            \* a retry is pending only after a transient failure, and only
            \* while the bound is not used up
            /\ it.st = "backoff"
                  => it.reason = "transient" /\ it.attempts \in 1..RetryBound

C15_Step ==
    \A r \in DOMAIN req :
        req[r].pc \in {"translate", "reconcile", "done"} =>
        \A i \in DOMAIN req[r].items :
            LET it == req[r].items[i]
                nx == req'[r].items[i]
            IN  \* a call is made for a sentence not yet called or due a retry
                /\ nx.st = "inflight" /\ it.st # "inflight"
                      => it.st \in {"todo", "backoff"}
                         /\ nx.attempts = it.attempts + 1
                /\ it.st = "inflight" /\ nx.st = "inflight"
                      => nx.attempts = it.attempts
                \* the first call ends in a final tag or in one pending retry
                /\ it.st = "inflight" /\ nx.st = "backoff"
                      => nx.reason = "transient" /\ it.attempts <= RetryBound
                \* a final tag stays final: no further call for that sentence
                /\ FinalTag(it) => FinalTag(nx) /\ nx.attempts = 0

(* C15: the Batch Translator retries a sentence only after a transient      *)
(* failure and at most RetryBound (1) times, then the item is demoted to    *)
(* failure; a success or a permanent failure gives the final tag at once    *)
(* and a final tag is never called again.  So a sentence causes at most     *)
(* 1 + RetryBound calls, and one call when its first attempt succeeds or    *)
(* fails permanently.                                                       *)
C15_BoundedRetry == [](C15_State) /\ [][C15_Step]_vars

\* the retry of the first sentence is in flight (its second call) while the
\* second sentence has failed for good
C15_Witness ==
    \E r \in DOMAIN req :
        /\ req[r].pc = "translate"
        /\ req[r].items[1].st = "inflight"
        /\ req[r].items[1].attempts = 1 + RetryBound
        /\ req[r].items[2].st = "fail" /\ req[r].items[2].reason = "service"

----------------------------------------------------------------------------
(* C16: finalization is one atomic update of the session row.  In no        *)
(* reachable state has a session a terminal status with durationMs unset or *)
(* with a generatedCount other than the number of its flashcards, or a      *)
(* durationMs while it is processing; a step that changes one of status,    *)
(* generatedCount and durationMs is the step from processing to a terminal  *)
(* status that sets durationMs, so durationMs is written exactly once.      *)
C16_AtomicFinalization ==
    /\ [](\A sid \in DOMAIN sessions :
            LET row == sessions[sid]
            IN  /\ row.status \in Terminal <=> row.durationMs # Null
                /\ row.status \in Terminal
                      => row.generatedCount = Len(StoredOf(sid))
                /\ row.status = "processing"
                      => row.durationMs = Null /\ row.generatedCount = 0)
    /\ [][\A sid \in DOMAIN sessions :
            LET row == sessions[sid]
                nx == sessions'[sid]
            IN  \/ /\ nx.status = row.status
                   /\ nx.generatedCount = row.generatedCount
                   /\ nx.durationMs = row.durationMs
                \/ /\ row.status = "processing" /\ row.durationMs = Null
                   /\ nx.status \in Terminal /\ nx.durationMs # Null]_vars

\* a batch that took time and ended partial: status, count and duration are
\* all there
C16_Witness ==
    \E r \in DOMAIN req :
        /\ req[r].pc = "done"
        /\ sessions[req[r].session].status = "partial"
        /\ sessions[req[r].session].durationMs = 1
        /\ sessions[req[r].session].generatedCount = 4

(* C17: errorMessage is set only on a session whose status is failed or     *)
(* partial; a processing or completed session has none.                     *)
C17_ErrorMessageOnlyOnFailure ==
    \A sid \in DOMAIN sessions :
        /\ sessions[sid].errorMessage # ""
              => sessions[sid].status \in {"failed", "partial"}
        /\ sessions[sid].status \in {"processing", "completed"}
              => sessions[sid].errorMessage = ""

\* a completed session without a message, written by the pipeline
C17_Witness ==
    \E r \in DOMAIN req :
        /\ req[r].pc = "done" /\ req[r].session # 0
        /\ sessions[req[r].session].status = "completed"
        /\ sessions[req[r].session].errorMessage = ""

(* C18: inputCount of every session is between 5 and 30; it is set when the *)
(* row is created, to the number of sentences of the request, and no step   *)
(* changes it; no step decreases generatedCount.                            *)
C18_CountsMonotone ==
    /\ [](/\ \A sid \in DOMAIN sessions : sessions[sid].inputCount \in 5..30
          /\ \A r \in DOMAIN req : req[r].session # 0 =>
                sessions[req[r].session].inputCount = Len(req[r].sentences))
    /\ [][\A sid \in DOMAIN sessions :
            /\ sid \in DOMAIN sessions'
            /\ sessions'[sid].inputCount = sessions[sid].inputCount
            /\ sessions'[sid].generatedCount >= sessions[sid].generatedCount]_vars

\* a session of five sentences that has been finalized with three flashcards
C18_Witness ==
    \E r \in DOMAIN req :
        /\ req[r].pc = "done"
        /\ sessions[req[r].session].inputCount = 5
        /\ sessions[req[r].session].generatedCount = 3

\* request r creates its session in this step
Creates(r) == req[r].session = 0 /\ req'[r].session # 0

\* a call to the Generation Service is made for request r in this step
Calls(r) ==
    \E i \in DOMAIN req[r].items :
        req[r].items[i].st # "inflight" /\ req'[r].items[i].st = "inflight"

(* C19: the session row is created in processing, with inputCount persisted *)
(* and generatedCount = 0, after the validation and the quota check of the  *)
(* request have passed and before its first Generation Service call: a call *)
(* is made only for a request whose session row exists and is processing,   *)
(* and a request without a session has no sentence called.                  *)
C19_SessionBeforeCalls ==
    /\ [](\A r \in DOMAIN req :
            req[r].session = 0 =>
                \A i \in DOMAIN req[r].items : req[r].items[i].st = "todo")
    /\ [][\A r \in DOMAIN req :
            /\ Creates(r) =>
                  /\ req'[r].session = Len(sessions) + 1
                  /\ Len(sessions') = Len(sessions) + 1
                  /\ sessions'[req'[r].session].status = "processing"
                  /\ sessions'[req'[r].session].inputCount = Len(req[r].sentences)
                  /\ sessions'[req'[r].session].generatedCount = 0
                  /\ sessions'[req'[r].session].user = req[r].user
                  \* validation passed, quota check passed, nothing called yet
                  /\ Len(req[r].sentences) \in 5..30
                  /\ \A i \in DOMAIN req[r].sentences :
                        Len(req[r].sentences[i]) \in 1..200
                  /\ req[r].used + Len(req[r].sentences) <= 100
                  /\ req[r].items = <<>>
            /\ Calls(r) =>
                  /\ req[r].session \in DOMAIN sessions
                  /\ sessions[req[r].session].status = "processing"]_vars

\* the first call of a request is in flight; its session row is there, in
\* processing, with the five sentences counted and no flashcard yet
C19_Witness ==
    \E r \in DOMAIN req :
        /\ req[r].pc = "translate"
        /\ req[r].items[1].st = "inflight" /\ req[r].items[1].attempts = 1
        /\ req[r].items[2].st = "todo"
        /\ sessions[req[r].session].status = "processing"
        /\ sessions[req[r].session].inputCount = 5
        /\ sessions[req[r].session].generatedCount = 0

\* a sentence or translation the reconciler must not let through
Degenerate(text) == text = <<>> \/ Len(text) > 200

(* C20: the Result Reconciler demotes every success whose sentence or       *)
(* translation is empty or longer than 200 characters: no flashcard is      *)
(* persisted for it and it is counted in failed_count.  Every persisted     *)
(* flashcard has a non-empty sentenceEn and translationPl of at most 200    *)
(* characters, source ai and isEdited false.                                *)
C20_ReconcilerRecheck ==
    /\ \A n \in DOMAIN flashcards :
          LET row == flashcards[n]
          IN  /\ ~Degenerate(row.sentenceEn) /\ ~Degenerate(row.translationPl)
              /\ row.source = "ai" /\ row.isEdited = FALSE
    /\ \A r \in DOMAIN req :
          LET q == req[r]
          IN  /\ q.pc \in {"reconcile", "done"} =>
                 \A i \in 1..q.k :
                    \* reconciled: a degenerate pair is a failure without a row
                    Degenerate(q.sentences[i]) \/ Degenerate(Translate(q.sentences[i]))
                    => /\ q.items[i].st = "fail"
                       /\ \A n \in DOMAIN flashcards :
                             ~(flashcards[n].session = q.session
                               /\ flashcards[n].idx = i)
              /\ q.pc = "done" =>
                    q.response.failedCount
                        = Cardinality({i \in DOMAIN q.items : q.items[i].st = "fail"})

\* the service answered every sentence; the empty and the over-long answer
\* were demoted and are counted as failed next to three flashcards
C20_Witness ==
    \E r \in DOMAIN req :
        /\ req[r].pc = "done"
        /\ req[r].items[3].reason = "invalid" /\ req[r].items[4].reason = "invalid"
        /\ req[r].response.failedCount = 2
        /\ req[r].response.generatedCount = 3

----------------------------------------------------------------------------
\* the store holds a flashcard for sentence i of session sid
HasRow(sid, i) ==
    \E n \in DOMAIN flashcards :
        flashcards[n].session = sid /\ flashcards[n].idx = i

(* C21: when persisting the flashcard of one item fails, that item is       *)
(* recorded as a failure and has no row, while every other successful item  *)
(* reconciled so far, before or after it, has its flashcard; the session is *)
(* then finalized as partial (failed if nothing was persisted) with         *)
(* generatedCount the number of rows actually persisted.                    *)
C21_PersistFailureIsolated ==
    \A r \in DOMAIN req :
        LET q == req[r]
            lost == {i \in DOMAIN q.items : q.items[i].reason = "persist"}
        IN  q.pc \in {"reconcile", "done"} /\ lost # {} =>
              /\ \A i \in lost : q.items[i].st = "fail" /\ ~HasRow(q.session, i)
              /\ \A i \in 1..q.k : q.items[i].st = "ok" => HasRow(q.session, i)
              /\ q.pc = "done" =>
                    LET row == sessions[q.session]
                        stored == Len(StoredOf(q.session))
                    IN  /\ q.k = Len(q.items)
                        /\ row.generatedCount = stored
                        /\ row.status = IF stored = 0 THEN "failed" ELSE "partial"
                        /\ q.response.failedCount = Len(q.items) - stored

\* the first flashcard could not be written, the four after it were
C21_Witness ==
    \E r \in DOMAIN req :
        /\ req[r].pc = "done"
        /\ req[r].items[1].reason = "persist"
        /\ sessions[req[r].session].status = "partial"
        /\ sessions[req[r].session].generatedCount = 4
        /\ \A i \in 2..5 : HasRow(req[r].session, i)

\* the Generation Service calls of a request that have not returned
Running(q) == {i \in DOMAIN q.items : q.items[i].st = "inflight"}

(* C22: the per-sentence calls of a request run as a bounded task group     *)
(* with a join point: at every moment at most Parallelism calls of the      *)
(* request are in flight, and while the Result Reconciler works (and after) *)
(* every sentence of the batch has a final tag and no call is in flight.    *)
C22_BoundedTaskGroup ==
    \A r \in DOMAIN req :
        /\ Cardinality(Running(req[r])) <= Parallelism
        /\ req[r].pc \in {"reconcile", "done"}
              => /\ Running(req[r]) = {}
                 /\ Len(req[r].items) = Len(req[r].sentences)
                 /\ \A i \in DOMAIN req[r].items :
                        req[r].items[i].st \in {"ok", "fail"}

\* the pool is full: as many first calls in flight as the bound allows, the
\* next sentence waiting
C22_Witness ==
    \E r \in DOMAIN req :
        /\ req[r].pc = "translate"
        /\ Cardinality(Running(req[r])) = Parallelism
        /\ Parallelism >= 2
        /\ \E i \in DOMAIN req[r].items : req[r].items[i].st = "todo"

C23_State ==
    \A r \in DOMAIN req :
        LET q == req[r]
        IN  q.cancelled /\ q.session # 0 =>
              LET row == sessions[q.session]
              IN  /\ row.status \in StatusValues
                  /\ row.status \in Terminal <=> q.pc = "done"
                  /\ row.status \in Terminal =>
                        /\ row.generatedCount = Len(StoredOf(q.session))
                        /\ row.durationMs # Null
                        /\ q.response.generatedCount = row.generatedCount
                        /\ q.response.failedCount
                              = row.inputCount - row.generatedCount
                  /\ row.status = "processing" => row.generatedCount = 0
                  /\ Len(StoredOf(q.session)) <= Cardinality(OkItems(q))

C23_Step ==
    \A r \in DOMAIN req :
        req[r].cancelled =>
            /\ req'[r].cancelled
            /\ \A i \in DOMAIN req[r].items :
                  LET it == req[r].items[i]
                      nx == req'[r].items[i]
                  IN  \* no new call; a call in flight returns or is given up
                      /\ nx.st = "inflight" => it.st = "inflight" /\ nx = it
                      /\ nx.attempts <= it.attempts

(* C23: after a request is cancelled no new per-sentence call is            *)
(* dispatched; a call in flight completes or is abandoned; the session is   *)
(* not corrupted (its counts agree with the persisted flashcards and with   *)
(* the response) and it is still finalized to a terminal status.            *)
C23_Cancellation ==
    /\ [](C23_State)
    /\ [][C23_Step]_vars
    /\ \A r \in {1} :
          (req[r].cancelled) ~> (req[r].pc = "done"
                                 /\ sessions[req[r].session].status \in Terminal)

\* a cancelled batch that ended partial: a call in flight at the click came
\* back with a translation, the sentences not yet handed out were failed
C23_Witness ==
    \E r \in DOMAIN req :
        /\ req[r].cancelled /\ req[r].pc = "done"
        /\ sessions[req[r].session].status = "partial"
        /\ sessions[req[r].session].generatedCount >= 1
        /\ \E i \in DOMAIN req[r].items : req[r].items[i].reason = "cancelled"

----------------------------------------------------------------------------
(* C24: the search input of FlashcardFilters is debounced: when the user    *)
(* types several characters less than 300 ms apart, onSearchChange is       *)
(* called only once, with the last typed value, and is not called for the   *)
(* intermediate values: no value whose keystroke was followed by another    *)
(* keystroke within 300 ms is ever delivered.                               *)
C24_Debounced == \A n \in DOMAIN filt.calls : ~filt.calls[n].intermediate

----------------------------------------------------------------------------
(* C25: Pagination renders nothing when totalPages <= 1; for totalPages >= 2 *)
(* and currentPage in 1..totalPages the list shown contains page 1, page     *)
(* totalPages and currentPage, its page numbers are strictly increasing, it  *)
(* lists all pages when totalPages <= 7, and it has an ellipsis exactly      *)
(* between two shown numbers that are not consecutive.                       *)
IsEllipsis(ps, n) == ps[n] = Ellipsis

ShownNumbers(ps) == {ps[n] : n \in {k \in DOMAIN ps : ~IsEllipsis(ps, k)}}

C25_Pagination ==
    pager.pc = "rendered" =>
        LET ps == pager.pages
            tp == pager.totalPages
        IN  /\ tp <= 1 => ~pager.shown /\ ps = <<>>
            /\ tp >= 2 =>
                /\ pager.shown
                /\ {1, tp, pager.currentPage} \subseteq ShownNumbers(ps)
                /\ ShownNumbers(ps) \subseteq 1..tp
                /\ \A i, j \in DOMAIN ps :
                        i < j /\ ~IsEllipsis(ps, i) /\ ~IsEllipsis(ps, j)
                            => ps[i] < ps[j]
                /\ tp <= 7 => ps = [k \in 1..tp |-> k]
                /\ \A i \in DOMAIN ps :
                        /\ i < Len(ps) /\ ~IsEllipsis(ps, i) /\ ~IsEllipsis(ps, i + 1)
                                => ps[i + 1] = ps[i] + 1
                        /\ IsEllipsis(ps, i) =>
                                /\ 1 < i /\ i < Len(ps)
                                /\ ~IsEllipsis(ps, i - 1) /\ ~IsEllipsis(ps, i + 1)
                                /\ ps[i + 1] > ps[i - 1] + 1

\* a page in the middle of many: an ellipsis on either side of its window
C25_Witness ==
    /\ pager.pc = "rendered"
    /\ pager.totalPages > MaxVisiblePages + 2
    /\ Len(pager.pages) = 7
    /\ IsEllipsis(pager.pages, 2) /\ IsEllipsis(pager.pages, 6)
    /\ pager.pages[4] = pager.currentPage

----------------------------------------------------------------------------
(* C26: when the filters change while an earlier fetch is in flight, then   *)
(* once every fetch has settled the flashcards and the total of the hook    *)
(* are those of the response to the request for the latest filters: once    *)
(* no fetch is in flight and the fetch started last has returned a list,    *)
(* the hook holds the list for its filters.                                 *)
C26_LatestWins ==
    hook.fetches = <<>> /\ hook.latestOk =>
        /\ hook.state.flashcards = ListFor(hook.filters).data
        /\ hook.state.total = ListFor(hook.filters).meta.total

(* C27: whenever a fetch started by the hook has not settled, the hook      *)
(* reports isLoading = true.                                                *)
C27_LoadingWhileInFlight == hook.fetches # <<>> => IsLoading

----------------------------------------------------------------------------
(* C28: setSource, setSearch, setSort and setOrder set offset to 0 and      *)
(* change only their own filter field; goToPage(p) changes only offset, to  *)
(* (p - 1) * limit, so that currentPage = p; resetFilters restores the      *)
(* default values.                                                          *)
FilterFields == {"source", "search", "sort", "order", "limit", "offset"}

Kept(from, to, fields) == \A f \in fields : to[f] = from[f]

\* a step in which a setter, goToPage or resetFilters is called
FilterCall ==
    /\ hook'.isPending /\ hook' # hook
    /\ hook'.started = hook.started /\ hook'.fetches = hook.fetches

C28_Step ==
    FilterCall =>
        LET u == hook'.last
            from == hook.queued.filters
            to == hook'.queued.filters
        IN  /\ u.op = "source" => /\ to.source = u.name /\ to.offset = 0
                                  /\ Kept(from, to, FilterFields \ {"source", "offset"})
            /\ u.op = "search" => /\ to.search = u.search /\ to.offset = 0
                                  /\ Kept(from, to, FilterFields \ {"search", "offset"})
            /\ u.op = "sort" => /\ to.sort = u.name /\ to.offset = 0
                                /\ Kept(from, to, FilterFields \ {"sort", "offset"})
            /\ u.op = "order" => /\ to.order = u.name /\ to.offset = 0
                                 /\ Kept(from, to, FilterFields \ {"order", "offset"})
            /\ u.op = "page" => /\ to.offset = (u.page - 1) * from.limit
                                /\ Kept(from, to, FilterFields \ {"offset"})
                                /\ CurrentPageOf(to) = u.page
            /\ u.op = "reset" => to = DefaultFilters
            /\ u.op \in {"source", "search", "sort", "order", "page", "reset"}

C28_FrameEffect == [][C28_Step]_vars

\* page 2 of the AI cards matching a search, shown: setters, then goToPage(2)
C28_Witness ==
    /\ ~hook.isPending
    /\ hook.last.op = "page" /\ hook.last.page = 2
    /\ hook.filters.source = "ai" /\ hook.filters.search = <<"a">>
    /\ hook.filters.offset = hook.filters.limit
    /\ CurrentPageOf(hook.filters) = 2

----------------------------------------------------------------------------
(* C29: after a click on Clear search or Reset Filters the search filter of *)
(* the parent stays empty until the user types again.                       *)
C29_ClearedStaysEmpty == filt.cleared => filt.search = <<>>

(* C30: in every state of the hook exactly one of the four views of         *)
(* FlashcardList is rendered: error state, loading skeleton, empty state or *)
(* flashcard grid.                                                          *)
C30_OneView ==
    /\ ErrorView \/ SkeletonView \/ EmptyView \/ GridView
    /\ ~(ErrorView /\ SkeletonView) /\ ~(ErrorView /\ EmptyView)
    /\ ~(ErrorView /\ GridView) /\ ~(SkeletonView /\ EmptyView)
    /\ ~(SkeletonView /\ GridView) /\ ~(EmptyView /\ GridView)

====
